---- MODULE Spec2Model ----
(***************************************************************************)
(* A model of the iMessage conversation-reconstruction pipeline of         *)
(* imessage_processor.py: text extraction, junk filtering, grouping of     *)
(* chats by participants, merging of messages, segmentation into turns,    *)
(* synthesis of training pairs and the orchestration of a run.             *)
(*                                                                         *)
(* Python strings are modelled as sequences of one-character strings, so   *)
(* that trimming, prefix matching, splitting and joining are computed.     *)
(* A value that is None in Python is the distinguished value None.         *)
(***************************************************************************)
EXTENDS Integers, Sequences, FiniteSets, TLC

VARIABLES
    DAYS_BACK,                  \* config.DAYS_BACK: {} for None, {n} for n days
    PROCESS_GROUP_CHATS,        \* config.PROCESS_GROUP_CHATS
    CONVERSATION_STARTER_TOKEN, \* config.CONVERSATION_STARTER_TOKEN
    PYOBJC_AVAILABLE,           \* whether the Foundation import succeeded
    MIN_MESSAGE_LENGTH,         \* config.MIN_MESSAGE_LENGTH
    db_exists,                  \* self.db_path.exists()
    chat_table,                 \* store: chat ROWID -> handle ids joined to it
    message_table,              \* store: rows of message joined with chat_message_join
    connection,                 \* self.connection: "none", "open" or "closed"
    pc,                         \* position in the operation being run
    conversations,              \* ordered dict: sequence of [key, chat_ids]
    conv_index,                 \* position of the for loop over conversations
    rows,                       \* cursor.fetchall() of the message query
    messages,                   \* list of message dicts
    turns,                      \* list of turn dicts
    examples,                   \* list of (input, output) of one conversation
    all_examples,               \* accumulated list of (input, output)
    result,                     \* value returned by the operation
    trace                       \* history: events of the run, in order

vars == <<DAYS_BACK, PROCESS_GROUP_CHATS, CONVERSATION_STARTER_TOKEN,
          PYOBJC_AVAILABLE, MIN_MESSAGE_LENGTH, db_exists, chat_table,
          message_table, connection, pc, conversations, conv_index, rows, messages, turns, examples,
          all_examples, result, trace>>

config_vars == <<DAYS_BACK, PROCESS_GROUP_CHATS, CONVERSATION_STARTER_TOKEN,
                 PYOBJC_AVAILABLE, MIN_MESSAGE_LENGTH>>

store_vars == <<db_exists, chat_table, message_table>>

----------------------------------------------------------------------------
(* Python values *)

None == <<"<None>">>

\* str of a short literal, one character per element
Str_hi == <<"h", "i">>
Str_ok == <<"o", "k">>
Str_yo == <<"y", "o">>

\* the literal "[CONVERSATION_STARTER]" of create_training_examples
StarterLiteral ==
    <<"[", "C", "O", "N", "V", "E", "R", "S", "A", "T", "I", "O", "N", "_",
      "S", "T", "A", "R", "T", "E", "R", "]">>

\* another value the setting of config.py can be given
OtherStarterToken == <<"[", "S", "T", "A", "R", "T", "]">>

\* ' '.join(list of str)
RECURSIVE JoinWith(_, _)
JoinWith(sep, strs) ==
    IF Len(strs) = 0 THEN <<>>
    ELSE IF Len(strs) = 1 THEN strs[1]
    ELSE strs[1] \o sep \o JoinWith(sep, Tail(strs))

\* datetime values are <<seconds, microseconds>>
DateLess(a, b) == a[1] < b[1] \/ (a[1] = b[1] /\ a[2] < b[2])
DateLeq(a, b) == a = b \/ DateLess(a, b)

----------------------------------------------------------------------------
(* str methods and re.match with re.IGNORECASE *)

Whitespace == {" ", "\t", "\n"}

\* characters for which str.isprintable() is false
NonPrintable == {"\t", "\n", "<NUL>"}

\* a byte that is not valid UTF-8: bytes.decode(errors='ignore') drops it
InvalidByte == "<FF>"

UpperCase == 
    <<"A", "B", "C", "D", "E", "F", "G", "H", "I", "J", "K", "L", "M",
      "N", "O", "P", "Q", "R", "S", "T", "U", "V", "W", "X", "Y", "Z">>
LowerCase == 
    <<"a", "b", "c", "d", "e", "f", "g", "h", "i", "j", "k", "l", "m",
      "n", "o", "p", "q", "r", "s", "t", "u", "v", "w", "x", "y", "z">>

Lower(c) ==
    IF \E i \in 1..Len(UpperCase) : UpperCase[i] = c
    THEN LowerCase[CHOOSE i \in 1..Len(UpperCase) : UpperCase[i] = c]
    ELSE c

LowerStr(s) == [i \in 1..Len(s) |-> Lower(s[i])]

RECURSIVE LStrip(_)
LStrip(s) ==
    IF Len(s) > 0 /\ s[1] \in Whitespace THEN LStrip(Tail(s)) ELSE s

RECURSIVE RStrip(_)
RStrip(s) ==
    IF Len(s) > 0 /\ s[Len(s)] \in Whitespace
    THEN RStrip(SubSeq(s, 1, Len(s) - 1)) ELSE s

\* str.strip()
Strip(s) == RStrip(LStrip(s))

\* truth value of an Optional[str]
Truthy(s) == s # None /\ Len(s) > 0

\* re.match('^' + p, text, re.IGNORECASE) for a literal p
MatchesPrefix(p, text) ==
    /\ Len(text) >= Len(p)
    /\ LowerStr(SubSeq(text, 1, Len(p))) = LowerStr(p)

\* '$' matches at the end of the string and before a final newline
DropFinalNewline(text) ==
    IF Len(text) > 0 /\ text[Len(text)] = "\n"
    THEN SubSeq(text, 1, Len(text) - 1) ELSE text

\* re.match('^' + p + '$', text, re.IGNORECASE) for a literal p
MatchesWhole(p, text) ==
    \/ LowerStr(text) = LowerStr(p)
    \/ LowerStr(DropFinalNewline(text)) = LowerStr(p)

----------------------------------------------------------------------------
(* is_junk_message *)

TapbackVerbs ==
    {<<"L", "i", "k", "e", "d">>,
     <<"L", "o", "v", "e", "d">>,
     <<"L", "a", "u", "g", "h", "e", "d", " ", "a", "t">>,
     <<"D", "i", "s", "l", "i", "k", "e", "d">>,
     <<"E", "m", "p", "h", "a", "s", "i", "z", "e", "d">>,
     <<"Q", "u", "e", "s", "t", "i", "o", "n", "e", "d">>}

\* r'^(Liked|Loved|Laughed at|Disliked|Emphasized|Questioned)'
MatchesTapback(text) == \E v \in TapbackVerbs : MatchesPrefix(v, text)

\* '.*' matches any run of characters other than newline
NoNewline(s) == \A i \in 1..Len(s) : s[i] # "\n"

QuotedTail(body) ==
    /\ Len(body) >= 3
    /\ body[1] = " "
    /\ body[2] = "\""
    /\ body[Len(body)] = "\""
    /\ NoNewline(body)

\* r'^(Liked|Loved|Laughed at|Disliked|Emphasized|Questioned) ".*"$'
MatchesQuotedTapback(text) ==
    \E v \in TapbackVerbs :
        /\ MatchesPrefix(v, text)
        /\ \/ QuotedTail(SubSeq(text, Len(v) + 1, Len(text)))
           \/ /\ Len(text) > 0
              /\ text[Len(text)] = "\n"
              /\ QuotedTail(SubSeq(text, Len(v) + 1, Len(text) - 1))

AttachmentTokens ==
    {<<"[", "I", "M", "A", "G", "E", "]">>,
     <<"[", "U", "R", "L", "]">>,
     <<"[", "V", "I", "D", "E", "O", "]">>,
     <<"[", "A", "U", "D", "I", "O", "]">>,
     <<"[", "F", "I", "L", "E", "]">>}

\* r'^\[IMAGE\]$', r'^\[URL\]$', r'^\[VIDEO\]$', r'^\[AUDIO\]$', r'^\[FILE\]$'
MatchesAttachment(text) == \E a \in AttachmentTokens : MatchesWhole(a, text)

\* the literal 2 of 'len(text.strip()) < 2'
ShortMessageLimit == 2

is_junk_message(text) ==
    IF ~Truthy(text) THEN TRUE
    ELSE IF MatchesTapback(text) \/ MatchesQuotedTapback(text) THEN TRUE
    ELSE IF MatchesAttachment(text) THEN TRUE
    ELSE IF Len(Strip(text)) < ShortMessageLimit THEN TRUE
    ELSE FALSE

----------------------------------------------------------------------------
(* decode_attributed_body and extract_message_text *)

\* An attributedBody value: present is false for NULL; bytes is the blob, one
\* element per byte; keyed and legacy are what NSKeyedUnarchiver and
\* NSUnarchiver do with the blob: [kind |-> "raise"], [kind |-> "no_string"]
\* (no object, or an object without 'string') or [kind |-> "string"] with the
\* value of str(decoded_object.string()).
BlobTruthy(data) == data.present /\ Len(data.bytes) > 0

\* data.decode('utf-8', errors='ignore')
Utf8DecodeIgnore(bytes) == SelectSeq(bytes, LAMBDA b : b # InvalidByte)

\* ''.join(char for char in text if char.isprintable())
PrintableOnly(text) == SelectSeq(text, LAMBDA c : c \notin NonPrintable)

\* the literal 2 of 'len(clean_text) > 2'
RawSalvageMinLength == 2

\* step 3 of decode_attributed_body
RawUtf8Fallback(data) ==
    LET clean_text == PrintableOnly(Strip(Utf8DecodeIgnore(data.bytes))) IN
    IF Len(clean_text) > RawSalvageMinLength THEN clean_text ELSE None

\* the branch taken when PYOBJC_AVAILABLE is false
DecodeWithoutPyobjc(data) == Strip(Utf8DecodeIgnore(data.bytes))

decode_attributed_body(data, pyobjc) ==
    IF ~BlobTruthy(data) THEN None
    ELSE IF ~pyobjc THEN DecodeWithoutPyobjc(data)
    ELSE IF data.keyed.kind = "string" THEN data.keyed.value
    ELSE IF data.legacy.kind = "string" THEN data.legacy.value
    ELSE RawUtf8Fallback(data)

extract_message_text(text, attributed_body, pyobjc) ==
    IF Truthy(text) /\ Len(Strip(text)) > 0 THEN Strip(text)
    ELSE IF BlobTruthy(attributed_body)
         THEN decode_attributed_body(attributed_body, pyobjc)
         ELSE None

----------------------------------------------------------------------------
(* get_all_conversations *)

\* the characters of the handle ids, in code point order
OrderedChars == <<"+", ",", "1", "2", "@", "a", "b">>

CodePoint(c) == CHOOSE i \in 1..Len(OrderedChars) : OrderedChars[i] = c

\* str < str
RECURSIVE StrLess(_, _)
StrLess(a, b) ==
    IF Len(b) = 0 THEN FALSE
    ELSE IF Len(a) = 0 THEN TRUE
    ELSE IF a[1] = b[1] THEN StrLess(Tail(a), Tail(b))
    ELSE CodePoint(a[1]) < CodePoint(b[1])

RECURSIVE InsertStr(_, _)
InsertStr(sorted, x) ==
    IF Len(sorted) = 0 THEN <<x>>
    ELSE IF StrLess(x, sorted[Len(sorted)])
         THEN Append(InsertStr(SubSeq(sorted, 1, Len(sorted) - 1), x),
                     sorted[Len(sorted)])
         ELSE Append(sorted, x)

RECURSIVE SortedStrs(_)
SortedStrs(strs) ==
    IF Len(strs) = 0 THEN <<>>
    ELSE InsertStr(SortedStrs(SubSeq(strs, 1, Len(strs) - 1)), strs[Len(strs)])

\* GROUP_CONCAT(h.id, ',')
GroupConcat(handles) == JoinWith(<<",">>, handles)

\* str.split(','): the pieces between the commas, current is the open piece
RECURSIVE SplitLoop(_, _, _)
SplitLoop(str, current, acc) ==
    IF Len(str) = 0 THEN Append(acc, current)
    ELSE IF str[1] = ","
         THEN SplitLoop(Tail(str), <<>>, Append(acc, current))
         ELSE SplitLoop(Tail(str), Append(current, str[1]), acc)

SplitCommas(str) == SplitLoop(str, <<>>, <<>>)

\* the rows of the grouping query: chats with at least one joined handle,
\* ORDER BY c.ROWID
RECURSIVE ChatRows(_, _)
ChatRows(table, chat_id) ==
    IF chat_id > Len(table) THEN <<>>
    ELSE IF Len(table[chat_id]) = 0 THEN ChatRows(table, chat_id + 1)
    ELSE <<[chat_id |-> chat_id,
            participants |-> GroupConcat(table[chat_id])]>>
         \o ChatRows(table, chat_id + 1)

ParticipantKeyUnsorted(participants_str) == SplitCommas(participants_str)

\* tuple(sorted(participants_str.split(',')))
ParticipantKey(participants_str) == SortedStrs(SplitCommas(participants_str))

HasKey(convs, key) == \E k \in 1..Len(convs) : convs[k].key = key

AddChatFreshBucket(convs, key, chat_id) ==
    IF HasKey(convs, key)
    THEN [k \in 1..Len(convs) |->
             IF convs[k].key = key
             THEN [convs[k] EXCEPT !.chat_ids = <<chat_id>>]
             ELSE convs[k]]
    ELSE Append(convs, [key |-> key, chat_ids |-> <<chat_id>>])

\* if participants not in conversations: conversations[participants] = []
\* conversations[participants].append(chat_id)
AddChat(convs, key, chat_id) ==
    IF HasKey(convs, key)
    THEN [k \in 1..Len(convs) |->
             IF convs[k].key = key
             THEN [convs[k] EXCEPT !.chat_ids = Append(@, chat_id)]
             ELSE convs[k]]
    ELSE Append(convs, [key |-> key, chat_ids |-> <<chat_id>>])

RECURSIVE GroupLoop(_, _)
GroupLoop(chat_rows, convs) ==
    IF Len(chat_rows) = 0 THEN convs
    ELSE IF Len(chat_rows[1].participants) > 0
         THEN GroupLoop(Tail(chat_rows),
                        AddChat(convs, ParticipantKey(chat_rows[1].participants),
                                chat_rows[1].chat_id))
         ELSE GroupLoop(Tail(chat_rows), convs)

\* the dict returned, as the sequence of its items in insertion order
get_all_conversations(conn, table, raises) ==
    IF conn = "none" THEN <<>>
    ELSE IF raises \/ conn = "closed" THEN <<>>
    ELSE GroupLoop(ChatRows(table, 1), <<>>)

----------------------------------------------------------------------------
(* convert_messages_timestamp and get_messages_for_conversation *)

\* A value of message.date is <<s, ns, ok>>: s seconds and ns nanoseconds
\* since 2001-01-01 (the column holds s * 10^9 + ns), and ok tells whether
\* datetime.fromtimestamp accepts the value on this platform.
EpochOffset2001 == 978307200
NanosPerMicro == 1000
SecondsPerDay == 86400

\* datetime.now() of the run, as <<seconds, microseconds>>
Now == <<1778307200, 0>>

convert_messages_timestamp(timestamp) ==
    IF timestamp[3]
    THEN <<timestamp[1] + EpochOffset2001, timestamp[2] \div NanosPerMicro>>
    ELSE Now

\* cutoff_timestamp, for DAYS_BACK = {days}
CutoffTimestamp(days) ==
    <<Now[1] - days * SecondsPerDay - EpochOffset2001, 0>>

\* m.date >= ?
RawDateAtLeast(timestamp, cutoff) ==
    \/ timestamp[1] > cutoff[1]
    \/ (timestamp[1] = cutoff[1] /\ timestamp[2] >= cutoff[2])

\* the WHERE clause of the query, with or without the date filter
RowSelected(row, chat_ids, days_back) ==
    /\ \E k \in 1..Len(chat_ids) : chat_ids[k] = row.chat_id
    /\ \A days \in days_back : RawDateAtLeast(row.date, CutoffTimestamp(days))

\* cursor.fetchall(): one row per (message, chat_message_join) match; the
\* order of the store's rows is taken as it comes (lines 320-322)
QueryMessages(table, chat_ids, days_back) ==
    SelectSeq(table, LAMBDA row : RowSelected(row, chat_ids, days_back))

KeepRowNoJunkFilter(extracted_text) == Truthy(extracted_text)

\* if extracted_text and not self.is_junk_message(extracted_text)
KeepRow(extracted_text) ==
    Truthy(extracted_text) /\ ~is_junk_message(extracted_text)

MessageOfRow(row, extracted_text) ==
    [message_id |-> row.message_id,
     text |-> extracted_text,
     date |-> convert_messages_timestamp(row.date),
     is_from_me |-> row.is_from_me # 0,
     sender_id |-> row.handle_id,
     phone_number |-> row.phone_number]

RECURSIVE RowLoop(_, _, _)
RowLoop(rws, pyobjc, acc) ==
    IF Len(rws) = 0 THEN acc
    ELSE LET extracted_text ==
                 extract_message_text(rws[1].text, rws[1].attributedBody, pyobjc)
         IN  IF KeepRow(extracted_text)
             THEN RowLoop(Tail(rws), pyobjc,
                          Append(acc, MessageOfRow(rws[1], extracted_text)))
             ELSE RowLoop(Tail(rws), pyobjc, acc)

\* list.sort is stable: insert after the last element that is not greater
RECURSIVE InsertByDate(_, _)
InsertByDate(sorted, m) ==
    IF Len(sorted) = 0 THEN <<m>>
    ELSE IF DateLess(m.date, sorted[Len(sorted)].date)
         THEN Append(InsertByDate(SubSeq(sorted, 1, Len(sorted) - 1), m),
                     sorted[Len(sorted)])
         ELSE Append(sorted, m)

RECURSIVE SortLoop(_, _)
SortLoop(msgs, acc) ==
    IF Len(msgs) = 0 THEN acc
    ELSE SortLoop(Tail(msgs), InsertByDate(acc, msgs[1]))

SortByDateSkipped(msgs) == msgs

\* messages.sort(key=lambda m: m['date'])
SortByDate(msgs) == SortLoop(msgs, <<>>)

\* the early return of get_messages_for_conversation
NothingToFetch(conn, chat_ids) == conn = "none" \/ Len(chat_ids) = 0

\* the body of the try block, given the fetched rows
MessagesOfRows(rws, pyobjc) == SortByDate(RowLoop(rws, pyobjc, <<>>))

----------------------------------------------------------------------------
(* group_messages_into_turns *)

\* a new current_turn seeded from a message (no 'text' key yet)
NewTurn(message) ==
    [sender_id |-> message.sender_id,
     is_from_me |-> message.is_from_me,
     messages |-> <<message.text>>,
     start_time |-> message.date,
     end_time |-> message.date]

\* the test of the for loop: the message continues the current turn
SameSenderOnlyId(message, current_turn) ==
    message.sender_id = current_turn.sender_id

SameSender(message, current_turn) ==
    /\ message.sender_id = current_turn.sender_id
    /\ message.is_from_me = current_turn.is_from_me

ExtendTurn(current_turn, message) ==
    [current_turn EXCEPT !.messages = Append(@, message.text),
                         !.end_time = message.date]

\* current_turn['text'] = ' '.join(current_turn['messages'])
CloseTurn(current_turn) ==
    [sender_id |-> current_turn.sender_id,
     is_from_me |-> current_turn.is_from_me,
     messages |-> current_turn.messages,
     start_time |-> current_turn.start_time,
     end_time |-> current_turn.end_time,
     text |-> JoinWith(<<" ">>, current_turn.messages)]

RECURSIVE TurnLoop(_, _, _)
TurnLoop(rest, current_turn, acc) ==
    IF Len(rest) = 0 THEN Append(acc, CloseTurn(current_turn))
    ELSE IF SameSender(rest[1], current_turn)
         THEN TurnLoop(Tail(rest), ExtendTurn(current_turn, rest[1]), acc)
         ELSE TurnLoop(Tail(rest), NewTurn(rest[1]),
                       Append(acc, CloseTurn(current_turn)))

group_messages_into_turns(msgs) ==
    IF Len(msgs) = 0 THEN <<>>
    ELSE TurnLoop(Tail(msgs), NewTurn(msgs[1]), <<>>)

----------------------------------------------------------------------------
(* create_training_examples *)

IsMyTurnAlways(turn) == TRUE

\* if turn['is_from_me']
IsMyTurn(turn) == turn.is_from_me

InputTextSameTurn(trns, i) ==
    IF i > 1 THEN trns[i].text ELSE StarterLiteral

\* the input side of the pair of turn i (1-based: i > 1 is Python's i > 0)
InputText(trns, i) ==
    IF i > 1 THEN trns[i - 1].text ELSE StarterLiteral

RECURSIVE ExampleLoop(_, _, _)
ExampleLoop(trns, i, acc) ==
    IF i > Len(trns) THEN acc
    ELSE IF IsMyTurn(trns[i])
         THEN ExampleLoop(trns, i + 1,
                          Append(acc, <<InputText(trns, i), trns[i].text>>))
         ELSE ExampleLoop(trns, i + 1, acc)

create_training_examples(trns) == ExampleLoop(trns, 1, <<>>)

----------------------------------------------------------------------------
(* Bounds and sample values of the inputs *)

MaxTurnMsgs == 3

Handle_a == <<"a">>
Handle_b == <<"b">>

Date_early == <<978307200, 0>>
Date_late == <<978393600, 5>>

\* sequences over S of length at most n
SeqsUpTo(S, n) == UNION {[1..k -> S] : k \in 0..n}

\* message dicts as get_messages_for_conversation builds them
TurnMessageSamples ==
    [message_id : {1},
     text : {Str_hi, Str_ok},
     date : {Date_early, Date_late},
     is_from_me : BOOLEAN,
     sender_id : {None, Handle_a, Handle_b},
     phone_number : {None}]

StarterTokenValues == {StarterLiteral, OtherStarterToken}

----------------------------------------------------------------------------
(* Sample rows of the store *)

MaxMergeRows == 2

\* config.py: DAYS_BACK = 30
DefaultDaysBack == 30

\* config.py: MIN_MESSAGE_LENGTH = 2
DefaultMinMessageLength == 2

Str_ok_padded == <<" ", "o", "k", " ">>
Str_loved_ok == <<"L", "o", "v", "e", "d", " ", "\"", "o", "k", "\"">>
Str_k == <<"k">>
Str_blank == <<" ", " ">>
Str_image_nl == <<"[", "i", "m", "a", "g", "e", "]", "\n">>
Bytes_hey == <<"<FF>", "<NUL>", "h", "e", "y", "\n">>
Bytes_short == <<"<NUL>", "<FF>", "k", " ">>

NoBlob ==
    [present |-> FALSE, bytes |-> <<>>,
     keyed |-> [kind |-> "raise", value |-> <<>>],
     legacy |-> [kind |-> "raise", value |-> <<>>]]

Blob(bytes, keyed, legacy) ==
    [present |-> TRUE, bytes |-> bytes, keyed |-> keyed, legacy |-> legacy]

Raises == [kind |-> "raise", value |-> <<>>]
NoString == [kind |-> "no_string", value |-> <<>>]
Decodes(str) == [kind |-> "string", value |-> str]

CutoffSeconds == CutoffTimestamp(DefaultDaysBack)[1]
Raw_old == <<CutoffSeconds - 1, 999999999, TRUE>>
Raw_cutoff == <<CutoffSeconds, 0, TRUE>>
Raw_t1 == <<CutoffSeconds + 100, 1000, TRUE>>
Raw_t1b == <<CutoffSeconds + 100, 1999, TRUE>>
Raw_t2 == <<CutoffSeconds + 200, 0, TRUE>>
Raw_bad == <<CutoffSeconds + 50, 0, FALSE>>

Row(id, text, blob, date, from_me, handle, chat) ==
    [message_id |-> id, text |-> text, attributedBody |-> blob, date |-> date,
     is_from_me |-> from_me, handle_id |-> handle, phone_number |-> handle,
     chat_id |-> chat]

\* rows of message joined with chat_message_join; message 9 is joined to
\* two chats
RowPool ==
    {Row(1, Str_hi, NoBlob, Raw_t2, 0, Handle_a, 1),
     Row(2, Str_ok_padded, NoBlob, Raw_t1, 1, None, 2),
     Row(3, Str_loved_ok, NoBlob, Raw_t1b, 0, Handle_a, 1),
     Row(4, None, Blob(Bytes_short, Decodes(Str_yo), Raises), Raw_cutoff, 1,
         Handle_a, 1),
     Row(5, <<>>, Blob(Bytes_hey, Raises, NoString), Raw_old, 0, Handle_b, 2),
     Row(6, None, NoBlob, Raw_t1, 0, Handle_a, 1),
     Row(7, Str_hi, NoBlob, Raw_bad, 0, Handle_b, 3),
     Row(8, Str_k, NoBlob, Raw_t2, 1, None, 1),
     Row(9, Str_ok, NoBlob, Raw_t1b, 1, Handle_a, 1),
     Row(9, Str_ok, NoBlob, Raw_t1b, 1, Handle_a, 2),
     Row(10, Str_blank, Blob(Bytes_short, Decodes(<<>>), Raises), Raw_t2, 0,
         Handle_a, 2),
     Row(11, None, Blob(Bytes_short, Raises, Decodes(Str_image_nl)), Raw_t1,
         0, Handle_b, 2),
     Row(12, None, Blob(Bytes_short, NoString, Raises), Raw_t2, 0, Handle_a, 1)}

\* tables of at most n rows of the pool, in any order
TablesUpTo(pool, n) ==
    {t \in SeqsUpTo(pool, n) :
        \A i, j \in 1..Len(t) : i # j => t[i] # t[j]}

ChatIdLists == {<<>>, <<1>>, <<2>>, <<1, 2>>, <<1, 2, 3>>}

DaysBackValues == {{}, {DefaultDaysBack}}

----------------------------------------------------------------------------
(* The segmenter and the synthesizer applied to a message list *)

TurnsInit ==
    /\ DAYS_BACK = {}
    /\ PROCESS_GROUP_CHATS = FALSE
    /\ CONVERSATION_STARTER_TOKEN \in StarterTokenValues
    /\ PYOBJC_AVAILABLE = TRUE
    /\ MIN_MESSAGE_LENGTH = DefaultMinMessageLength
    /\ db_exists = TRUE
    /\ chat_table = <<>>
    /\ message_table = <<>>
    /\ connection = "none"
    /\ pc = "segment"
    /\ conversations = <<>>
    /\ conv_index = 0
    /\ rows = <<>>
    /\ messages \in SeqsUpTo(TurnMessageSamples, MaxTurnMsgs)
    /\ turns = <<>>
    /\ examples = <<>>
    /\ all_examples = <<>>
    /\ result = None
    /\ trace = <<>>

CallGroupMessagesIntoTurns ==
    /\ pc = "segment"
    /\ turns' = group_messages_into_turns(messages)
    /\ pc' = "synthesize"
    /\ UNCHANGED <<config_vars, store_vars, connection, conversations,
                   conv_index, rows, messages, examples, all_examples,
                   result, trace>>

CallCreateTrainingExamples ==
    /\ pc = "synthesize"
    /\ examples' = create_training_examples(turns)
    /\ result' = examples'
    /\ pc' = "synthesized"
    /\ UNCHANGED <<config_vars, store_vars, connection, conversations,
                   conv_index, rows, messages, turns, all_examples, trace>>

TurnsNext == CallGroupMessagesIntoTurns \/ CallCreateTrainingExamples

SpecTurns == TurnsInit /\ [][TurnsNext]_vars

----------------------------------------------------------------------------
(* get_messages_for_conversation applied to a table of rows *)

\* the value returned and the rows fetched on the way
get_messages_for_conversation(conn, chat_ids, table, days, pyobjc, raises) ==
    IF NothingToFetch(conn, chat_ids)
    THEN [rows |-> <<>>, messages |-> <<>>, queried |-> FALSE]
    ELSE IF raises \/ conn = "closed"
    THEN [rows |-> <<>>, messages |-> <<>>, queried |-> TRUE]
    ELSE LET rws == QueryMessages(table, chat_ids, days) IN
         [rows |-> rws, messages |-> MessagesOfRows(rws, pyobjc),
          queried |-> TRUE]

MergeInit ==
    /\ DAYS_BACK \in DaysBackValues
    /\ PROCESS_GROUP_CHATS = FALSE
    /\ CONVERSATION_STARTER_TOKEN = StarterLiteral
    /\ PYOBJC_AVAILABLE \in BOOLEAN
    /\ MIN_MESSAGE_LENGTH = DefaultMinMessageLength
    /\ db_exists = TRUE
    /\ chat_table = <<>>
    /\ message_table \in TablesUpTo(RowPool, MaxMergeRows)
    /\ connection \in {"none", "open"}
    /\ pc = "fetch"
    /\ \E ids \in ChatIdLists :
           conversations = <<[key |-> <<>>, chat_ids |-> ids]>>
    /\ conv_index = 1
    /\ rows = <<>>
    /\ messages = <<>>
    /\ turns = <<>>
    /\ examples = <<>>
    /\ all_examples = <<>>
    /\ result = None
    /\ trace = <<>>

CallGetMessagesForConversation ==
    /\ pc = "fetch"
    /\ \E query_raises \in BOOLEAN :
        LET got == get_messages_for_conversation(
                       connection, conversations[conv_index].chat_ids,
                       message_table, DAYS_BACK, PYOBJC_AVAILABLE,
                       query_raises)
        IN  /\ rows' = got.rows
            /\ messages' = got.messages
            /\ trace' = IF ~got.queried THEN trace
                         ELSE IF query_raises THEN Append(trace, "query_error")
                         ELSE Append(trace, "query")
    /\ pc' = "segment"
    /\ UNCHANGED <<config_vars, store_vars, connection, conversations,
                   conv_index, turns, examples, all_examples, result>>

MergeNext ==
    \/ CallGetMessagesForConversation
    \/ CallGroupMessagesIntoTurns
    \/ CallCreateTrainingExamples

SpecMerge == MergeInit /\ [][MergeNext]_vars

----------------------------------------------------------------------------
(* extract_message_text and is_junk_message applied to one row *)

Str_loved_it == <<"L", "O", "V", "E", "D", " ", "i", "t">>
Str_image_mixed == <<"[", "I", "m", "a", "g", "e", "]">>
Str_url_padded == <<" ", "[", "U", "R", "L", "]", " ">>
Str_k_padded == <<" ", "k", " ">>
Str_loved_ok_nl == <<"L", "o", "v", "e", "d", " ", "\"", "o", "k", "\"", "\n">>
Bytes_file == <<"<NUL>", "[", "f", "i", "l", "e", "]", "<NUL>", "\n">>

\* values of the text column
TextColumnSamples ==
    {None, <<>>, Str_blank, Str_hi, Str_ok_padded, Str_k, Str_loved_ok,
     Str_loved_it, Str_image_mixed, Str_url_padded}

\* what an archive decoder does with a blob
KeyedOutcomes ==
    {Raises, NoString, Decodes(<<>>), Decodes(Str_yo), Decodes(Str_image_nl),
     Decodes(Str_k_padded)}

LegacyOutcomes ==
    {Raises, NoString, Decodes(<<>>), Decodes(Str_hi), Decodes(Str_loved_ok_nl)}

BlobSamples ==
    {NoBlob}
    \cup {Blob(b, k, l) : b \in {<<>>, Bytes_hey, Bytes_short, Bytes_file},
                          k \in KeyedOutcomes, l \in LegacyOutcomes}

\* another value config.MIN_MESSAGE_LENGTH can be given
OtherMinMessageLength == DefaultMinMessageLength + 1

ExtractInit ==
    /\ DAYS_BACK = {}
    /\ PROCESS_GROUP_CHATS = FALSE
    /\ CONVERSATION_STARTER_TOKEN = StarterLiteral
    /\ PYOBJC_AVAILABLE \in BOOLEAN
    /\ MIN_MESSAGE_LENGTH \in {DefaultMinMessageLength, OtherMinMessageLength}
    /\ db_exists = TRUE
    /\ chat_table = <<>>
    /\ message_table = <<>>
    /\ connection = "open"
    /\ pc = "extract"
    /\ conversations = <<>>
    /\ conv_index = 0
    /\ \E text \in TextColumnSamples, blob \in BlobSamples :
           rows = <<Row(1, text, blob, Raw_t1, 0, Handle_a, 1)>>
    /\ messages = <<>>
    /\ turns = <<>>
    /\ examples = <<>>
    /\ all_examples = <<>>
    /\ result = None
    /\ trace = <<>>

\* line 308: extracted_text = self.extract_message_text(text, attributed_body)
CallExtractMessageText ==
    /\ pc = "extract"
    /\ result' = extract_message_text(rows[1].text, rows[1].attributedBody,
                                      PYOBJC_AVAILABLE)
    /\ pc' = "classify"
    /\ UNCHANGED <<config_vars, store_vars, connection, conversations,
                   conv_index, rows, messages, turns, examples, all_examples,
                   trace>>

\* self.is_junk_message(extracted_text)
CallIsJunkMessage ==
    /\ pc = "classify"
    /\ trace' = Append(trace, IF is_junk_message(result) THEN "junk"
                              ELSE "not_junk")
    /\ pc' = "classified"
    /\ UNCHANGED <<config_vars, store_vars, connection, conversations,
                   conv_index, rows, messages, turns, examples, all_examples,
                   result>>

ExtractNext == CallExtractMessageText \/ CallIsJunkMessage

SpecExtract == ExtractInit /\ [][ExtractNext]_vars

----------------------------------------------------------------------------
(* get_all_conversations applied to a chat table *)

MaxChats == 3

Handle_ab == <<"a", "b">>

\* the handle ids joined to one chat, in the order the store lists them; the
\* same id appears twice when two handle rows carry it
HandleLists ==
    {<<>>, <<Handle_a>>, <<Handle_b>>, <<Handle_a, Handle_b>>,
     <<Handle_b, Handle_a>>, <<Handle_a, Handle_a>>, <<Handle_ab>>}

ChatTables == SeqsUpTo(HandleLists, MaxChats)

GroupInit ==
    /\ DAYS_BACK = {}
    /\ PROCESS_GROUP_CHATS = FALSE
    /\ CONVERSATION_STARTER_TOKEN = StarterLiteral
    /\ PYOBJC_AVAILABLE = TRUE
    /\ MIN_MESSAGE_LENGTH = DefaultMinMessageLength
    /\ db_exists = TRUE
    /\ chat_table \in ChatTables
    /\ message_table = <<>>
    /\ connection \in {"none", "open"}
    /\ pc = "group"
    /\ conversations = <<>>
    /\ conv_index = 0
    /\ rows = <<>>
    /\ messages = <<>>
    /\ turns = <<>>
    /\ examples = <<>>
    /\ all_examples = <<>>
    /\ result = None
    /\ trace = <<>>

CallGetAllConversations ==
    /\ pc = "group"
    /\ \E raises \in BOOLEAN :
        /\ conversations' = get_all_conversations(connection, chat_table, raises)
        /\ trace' = IF connection = "none" THEN trace
                    ELSE IF raises THEN Append(trace, "group_query_error")
                    ELSE Append(trace, "group_query")
    /\ pc' = "grouped"
    /\ UNCHANGED <<config_vars, store_vars, connection, conv_index, rows,
                   messages, turns, examples, all_examples, result>>

\* GROUP_CONCAT joins the handles of a chat in an order the store does not
\* fix: a listing of the same store state holds, for every chat, the same
\* handles the same number of times
SameHandles(list1, list2) ==
    /\ Len(list1) = Len(list2)
    /\ \A h \in {Handle_a, Handle_b, Handle_ab} :
          Cardinality({k \in 1..Len(list1) : list1[k] = h})
              = Cardinality({k \in 1..Len(list2) : list2[k] = h})

ListingsOf(table) ==
    {t \in ChatTables :
        /\ Len(t) = Len(table)
        /\ \A c \in 1..Len(table) : SameHandles(t[c], table[c])}

\* a second call of get_all_conversations on the unchanged store; rows holds
\* what its cursor.fetchall() gave
CallGetAllConversationsAgain ==
    /\ pc = "grouped"
    /\ \E raises \in BOOLEAN, listing \in ListingsOf(chat_table) :
        /\ result' = get_all_conversations(connection, listing, raises)
        /\ rows' = IF connection = "none" \/ raises THEN <<>>
                   ELSE ChatRows(listing, 1)
        /\ trace' = IF connection = "none" THEN trace
                    ELSE IF raises THEN Append(trace, "group_query_error")
                    ELSE Append(trace, "group_query")
    /\ pc' = "regrouped"
    /\ UNCHANGED <<config_vars, store_vars, connection, conversations,
                   conv_index, messages, turns, examples, all_examples>>

GroupNext == CallGetAllConversations \/ CallGetAllConversationsAgain

SpecGroup == GroupInit /\ [][GroupNext]_vars

----------------------------------------------------------------------------
(* process_all_conversations *)

MaxStoreChats == 2
MaxStoreRows == 2

\* the second handle row of a chat may carry the id of the first
StoreHandleLists ==
    {<<Handle_a>>, <<Handle_b>>, <<Handle_a, Handle_b>>,
     <<Handle_a, Handle_a>>}

StoreRowPool ==
    {Row(1, Str_hi, NoBlob, Raw_t2, 0, Handle_a, 1),
     Row(2, Str_ok_padded, NoBlob, Raw_t1, 1, None, 2),
     Row(3, Str_loved_ok, NoBlob, Raw_t1b, 0, Handle_a, 1),
     Row(9, Str_yo, NoBlob, Raw_t1b, 1, Handle_a, 1),
     Row(9, Str_yo, NoBlob, Raw_t1b, 1, Handle_a, 2)}

\* {p: cids for p, cids in conversations.items() if len(p) == 1}
OneOnOneOnly(convs) == SelectSeq(convs, LAMBDA c : Len(c.key) = 1)

\* lines 414-419
FilterConversations(convs, process_group_chats) ==
    IF ~process_group_chats THEN OneOnOneOnly(convs) ELSE convs

CloseConnectionSkipped(conn) == conn

\* close_connection: if self.connection: self.connection.close()
CloseConnection(conn) == IF conn = "open" THEN "closed" ELSE conn

BreakLoop(i, n) == n + 1

\* 'continue', and the end of the loop body: on to the next conversation
ContinueLoop(i, n) == i + 1

Init ==
    /\ DAYS_BACK = {DefaultDaysBack}
    /\ PROCESS_GROUP_CHATS \in BOOLEAN
    /\ CONVERSATION_STARTER_TOKEN = StarterLiteral
    /\ PYOBJC_AVAILABLE = TRUE
    /\ MIN_MESSAGE_LENGTH = DefaultMinMessageLength
    /\ db_exists \in BOOLEAN
    /\ chat_table \in SeqsUpTo(StoreHandleLists, MaxStoreChats)
    /\ message_table \in TablesUpTo(StoreRowPool, MaxStoreRows)
    /\ connection = "none"
    /\ pc = "start"
    /\ conversations = <<>>
    /\ conv_index = 0
    /\ rows = <<>>
    /\ messages = <<>>
    /\ turns = <<>>
    /\ examples = <<>>
    /\ all_examples = <<>>
    /\ result = None
    /\ trace = <<>>

\* connect_to_database and the early return of line 406-407
ConnectToDatabase ==
    /\ pc = "start"
    /\ \E raises \in BOOLEAN :
        IF ~db_exists \/ raises
        THEN /\ connection' = connection
             /\ result' = <<>>
             /\ trace' = Append(trace, "connect_failed")
             /\ pc' = "returned"
        ELSE /\ connection' = "open"
             /\ result' = result
             /\ trace' = Append(trace, "connect")
             /\ pc' = "group"
    /\ UNCHANGED <<config_vars, store_vars, conversations, conv_index, rows,
                   messages, turns, examples, all_examples>>

\* lines 410-428: grouping and the one-on-one filter
GroupConversations ==
    /\ pc = "group"
    /\ \E raises \in BOOLEAN :
        /\ conversations' =
               FilterConversations(
                   get_all_conversations(connection, chat_table, raises),
                   PROCESS_GROUP_CHATS)
        /\ trace' = IF raises THEN Append(trace, "group_query_error")
                    ELSE Append(trace, "group_query")
    /\ all_examples' = <<>>
    /\ conv_index' = 1
    /\ pc' = "loop"
    /\ UNCHANGED <<config_vars, store_vars, connection, rows, messages, turns,
                   examples, result>>

PrependExamples(all, exs) == exs \o all

\* lines 442-443: if examples: all_examples.extend(examples)
ExtendExamples(all, exs) == all \o exs

\* lines 430-444: one iteration of the loop over conversations.items()
ProcessConversation ==
    /\ pc = "loop"
    /\ conv_index <= Len(conversations)
    /\ \E raises \in BOOLEAN :
        LET got == get_messages_for_conversation(
                       connection, conversations[conv_index].chat_ids,
                       message_table, DAYS_BACK, PYOBJC_AVAILABLE, raises)
            trns == group_messages_into_turns(got.messages)
            exs == create_training_examples(trns)
        IN  /\ rows' = got.rows
            /\ messages' = got.messages
            /\ trace' = IF ~got.queried THEN trace
                        ELSE IF raises THEN Append(trace, "query_error")
                        ELSE Append(trace, "query")
            /\ IF Len(got.messages) = 0
               THEN /\ conv_index' = ContinueLoop(conv_index, Len(conversations))
                    /\ UNCHANGED <<turns, examples, all_examples>>
               ELSE /\ turns' = trns
                    /\ examples' = exs
                    /\ all_examples' = ExtendExamples(all_examples, exs)
                    /\ conv_index' = conv_index + 1
    /\ UNCHANGED <<config_vars, store_vars, connection, conversations, pc,
                   result>>

\* lines 446-447: return all_examples
ReturnAllExamples ==
    /\ pc = "loop"
    /\ conv_index > Len(conversations)
    /\ result' = all_examples
    /\ pc' = "finally"
    /\ UNCHANGED <<config_vars, store_vars, connection, conversations,
                   conv_index, rows, messages, turns, examples, all_examples,
                   trace>>

\* an exception that no handler inside the try block catches
ExceptionEscapes ==
    /\ pc \in {"group", "loop"}
    /\ pc' = "finally_raise"
    /\ trace' = Append(trace, "exception")
    /\ UNCHANGED <<config_vars, store_vars, connection, conversations,
                   conv_index, rows, messages, turns, examples, all_examples,
                   result>>

\* lines 449-450: finally: self.close_connection()
Finally ==
    /\ pc \in {"finally", "finally_raise"}
    /\ connection' = CloseConnection(connection)
    /\ trace' = IF connection' = "closed" THEN Append(trace, "close") ELSE trace
    /\ pc' = IF pc = "finally" THEN "returned" ELSE "raised"
    /\ UNCHANGED <<config_vars, store_vars, conversations, conv_index, rows,
                   messages, turns, examples, all_examples, result>>

MainOutcomeAlwaysSaved(exs) == "saved"

\* main: if examples: save_to_csv, "completed successfully"; else:
\* logger.error("No training examples were generated. ...")
MainOutcome(exs) ==
    IF Len(exs) > 0 THEN "saved" ELSE "error_no_examples"

\* lines 478-484: main, after process_all_conversations has returned
MainReports ==
    /\ pc = "returned"
    /\ trace' = Append(trace, MainOutcome(result))
    /\ pc' = "exited"
    /\ UNCHANGED <<config_vars, store_vars, connection, conversations,
                   conv_index, rows, messages, turns, examples, all_examples,
                   result>>

Next ==
    \/ ConnectToDatabase
    \/ GroupConversations
    \/ ProcessConversation
    \/ ReturnAllExamples
    \/ ExceptionEscapes
    \/ Finally
    \/ MainReports

Spec == Init /\ [][Next]_vars

----------------------------------------------------------------------------
(* Properties of the segmenter and the synthesizer *)

TurnsReturned == pc \in {"synthesize", "synthesized"}
PairsReturned == pc = "synthesized"

RECURSIVE Flatten(_)
Flatten(seqs) ==
    IF Len(seqs) = 0 THEN <<>> ELSE seqs[1] \o Flatten(Tail(seqs))

TurnMessageLists(trns) == [t \in 1..Len(trns) |-> trns[t].messages]
MessageTexts(msgs) == [k \in 1..Len(msgs) |-> msgs[k].text]

\* number of messages in the turns before turn t
RECURSIVE TurnOffset(_, _)
TurnOffset(trns, t) ==
    IF t <= 1 THEN 0
    ELSE TurnOffset(trns, t - 1) + Len(trns[t - 1].messages)

RECURSIVE SelfTurnIndices(_, _)
SelfTurnIndices(trns, i) ==
    IF i > Len(trns) THEN <<>>
    ELSE IF trns[i].is_from_me
         THEN <<i>> \o SelfTurnIndices(trns, i + 1)
         ELSE SelfTurnIndices(trns, i + 1)

\* C2 (adjacency rule): the pairs are, in order, one per turn from self; the
\* pair of a turn at index i > 0 has the text of turn i as output and the
\* text of turn i-1 as input; no turn from the other side gives an output.
C2_AdjacencyRule ==
    PairsReturned =>
        LET self == SelfTurnIndices(turns, 1) IN
        /\ Len(examples) = Len(self)
        /\ \A k \in 1..Len(self) :
            /\ turns[self[k]].is_from_me
            /\ examples[k][2] = turns[self[k]].text
            /\ (self[k] > 1 => examples[k][1] = turns[self[k] - 1].text)

C2_Witness ==
    /\ PairsReturned
    /\ Len(turns) = 3
    /\ ~turns[1].is_from_me /\ turns[2].is_from_me /\ turns[3].is_from_me
    /\ turns[1].text # turns[2].text
    /\ Len(examples) = 2

\* C3 (pair count): the number of pairs returned equals the number of turns
\* whose is_from_me is true.
C3_PairCount ==
    PairsReturned =>
        Len(examples) = Cardinality({t \in 1..Len(turns) : turns[t].is_from_me})

C3_Witness ==
    /\ PairsReturned
    /\ Len(turns) = 3
    /\ Len(examples) = 1
    /\ ~turns[1].is_from_me /\ ~turns[3].is_from_me

\* C4 (starter sentinel), as claimed: when the first turn is from self, the
\* input of its pair is the configured CONVERSATION_STARTER_TOKEN, whatever
\* value the setting has, and the synthesizer puts the sentinel in no other
\* pair.
C4_StarterSentinel ==
    PairsReturned =>
        /\ (Len(turns) > 0 /\ turns[1].is_from_me
                => examples[1][1] = CONVERSATION_STARTER_TOKEN)
        /\ LET self == SelfTurnIndices(turns, 1) IN
           \A k \in 1..Len(examples) :
               (k <= Len(self) /\ self[k] > 1)
                   => examples[k][1] = turns[self[k] - 1].text

----------------------------------------------------------------------------
(* Properties of the merge *)

MessagesReturned == pc \in {"segment", "synthesize", "synthesized"}

\* the list before the final sort
UnsortedMessages == RowLoop(rows, PYOBJC_AVAILABLE, <<>>)

RowChats(rws) == {rws[k].chat_id : k \in 1..Len(rws)}

\* C5 (merge ordering): the list returned by get_messages_for_conversation
\* is non-decreasing by date, whatever the order of the store's rows.
C5_MergeOrdering ==
    MessagesReturned =>
        \A i, j \in 1..Len(messages) :
            i < j => DateLeq(messages[i].date, messages[j].date)

\* rows of two chats came back out of order and were put in order
C5_Witness ==
    /\ MessagesReturned
    /\ Cardinality(RowChats(rows)) >= 2
    /\ Len(messages) >= 2
    /\ UnsortedMessages # messages
    /\ DateLess(messages[1].date, messages[2].date)

TextOfRow(row) ==
    extract_message_text(row.text, row.attributedBody, PYOBJC_AVAILABLE)

\* C8 (junk never reaches the output): every message returned has a
\* non-empty text for which is_junk_message is false; a row
\* whose text is junk or whose extraction yields nothing gives no message,
\* and the texts of the turns and the outputs of the pairs are made of the
\* returned messages' texts only.
C8_NoJunkInOutput ==
    /\ MessagesReturned =>
        /\ \A k \in 1..Len(messages) :
            /\ Truthy(messages[k].text)
            /\ ~is_junk_message(messages[k].text)
        /\ Len(messages) =
               Cardinality({k \in 1..Len(rows) :
                               /\ Truthy(TextOfRow(rows[k]))
                               /\ ~is_junk_message(TextOfRow(rows[k]))})
    /\ TurnsReturned =>
        \A t \in 1..Len(turns) : \A k \in 1..Len(turns[t].messages) :
            /\ Truthy(turns[t].messages[k])
            /\ ~is_junk_message(turns[t].messages[k])
    /\ PairsReturned =>
        \A e \in 1..Len(examples) :
            \E t \in 1..Len(turns) :
                examples[e][2] = JoinWith(<<" ">>, turns[t].messages)

\* a junk row was fetched together with a row that was kept and reached a pair
C8_Witness ==
    /\ PairsReturned
    /\ \E k \in 1..Len(rows) : rows[k].text = Str_loved_ok
    /\ Len(messages) = 1
    /\ Len(examples) = 1

----------------------------------------------------------------------------
(* Properties of the grouping *)

\* get_all_conversations returned the mapping built from the query's rows
GroupingReturned ==
    /\ pc = "grouped"
    /\ Len(trace) > 0
    /\ trace[Len(trace)] = "group_query"

\* the participant set of a chat: the raw handle ids joined to it
ParticipantSet(chat_id) ==
    {chat_table[chat_id][k] : k \in 1..Len(chat_table[chat_id])}

\* the positions of the buckets that hold the chat, counted with multiplicity
BucketSlots(chat_id) ==
    {<<b, k>> \in (1..Len(conversations)) \X (1..MaxChats + 1) :
        /\ k <= Len(conversations[b].chat_ids)
        /\ conversations[b].chat_ids[k] = chat_id}

BucketOf(chat_id) ==
    CHOOSE b \in 1..Len(conversations) :
        \E k \in 1..Len(conversations[b].chat_ids) :
            conversations[b].chat_ids[k] = chat_id

IsSortedDistinct(key) ==
    \A i \in 1..(Len(key) - 1) : StrLess(key[i], key[i + 1])

\* C6 (grouping by participant set), as claimed: two chats with equal
\* non-empty participant sets are placed under the same key, whatever the
\* order or multiplicity of the handles in the store's listing, and every
\* key is the deduplicated, sorted tuple of the participants.
C6_GroupByParticipantSet ==
    GroupingReturned =>
        /\ \A c1, c2 \in 1..Len(chat_table) :
            (/\ ParticipantSet(c1) # {}
             /\ ParticipantSet(c1) = ParticipantSet(c2))
                => BucketOf(c1) = BucketOf(c2)
        /\ \A b \in 1..Len(conversations) :
            IsSortedDistinct(conversations[b].key)

\* C7 (grouping is a partition): every chat with at least one participant
\* handle is in exactly one bucket, exactly once; a chat with no participant
\* is in no bucket; no bucket is empty.
C7_GroupingPartition ==
    GroupingReturned =>
        /\ \A c \in 1..Len(chat_table) :
            IF Len(chat_table[c]) > 0
            THEN Cardinality(BucketSlots(c)) = 1
            ELSE Cardinality(BucketSlots(c)) = 0
        /\ \A b \in 1..Len(conversations) :
            /\ Len(conversations[b].chat_ids) > 0
            /\ \A k \in 1..Len(conversations[b].chat_ids) :
                conversations[b].chat_ids[k] \in 1..Len(chat_table)
        /\ \A b1, b2 \in 1..Len(conversations) :
            b1 # b2 => conversations[b1].key # conversations[b2].key

\* two chats share a bucket, a third has no participant and is left out
C7_Witness ==
    /\ GroupingReturned
    /\ Len(chat_table) = 3
    /\ \E c \in 1..3 : Len(chat_table[c]) = 0
    /\ Len(conversations) = 1
    /\ Len(conversations[1].chat_ids) = 2
    /\ conversations[1].key = <<Handle_a, Handle_b>>
    /\ \E c1, c2 \in 1..3 :
           Len(chat_table[c1]) > 0 /\ Len(chat_table[c2]) > 0
               /\ chat_table[c1] # chat_table[c2]

----------------------------------------------------------------------------
(* Properties of a run of process_all_conversations *)

MessageQueryEvents == {"query", "query_error"}
QueryEvents == MessageQueryEvents \cup {"group_query", "group_query_error"}

\* the outcomes of the message queries of the run, one per conversation
LoopEvents == SelectSeq(trace, LAMBDA e : e \in MessageQueryEvents)

\* the pairs of a conversation whose message query succeeds
PairsOfConversation(conv) ==
    create_training_examples(
        group_messages_into_turns(
            MessagesOfRows(
                QueryMessages(message_table, conv.chat_ids, DAYS_BACK),
                PYOBJC_AVAILABLE)))

ContributionOf(k, events) ==
    IF events[k] = "query" THEN PairsOfConversation(conversations[k])
    ELSE <<>>

RunReturnedExamples == pc = "returned" /\ connection # "none"

\* C9 (fault isolation): a conversation whose message query fails adds no
\* pair, every later conversation is still processed, and the list returned
\* is the pairs of the conversations whose queries succeeded, in order.
C9_FaultIsolation ==
    RunReturnedExamples =>
        /\ Len(LoopEvents) = Len(conversations)
        /\ result = Flatten([k \in 1..Len(conversations) |->
                                ContributionOf(k, LoopEvents)])

\* the query of the first conversation failed, it had pairs to give, and
\* the pairs of the second are returned
C9_Witness ==
    /\ RunReturnedExamples
    /\ LoopEvents = <<"query_error", "query">>
    /\ Len(PairsOfConversation(conversations[1])) > 0
    /\ Len(result) > 0
    /\ result = PairsOfConversation(conversations[2])

EventPositions(e) == {i \in 1..Len(trace) : trace[i] = e}

RunEnded == pc \in {"returned", "raised"}

\* C10 (connection lifecycle): the connection is acquired at most once and
\* before any query; once acquired it is closed when the run ends, by return
\* or by an escaping exception; no query follows the close.
C10_ConnectionLifecycle ==
    /\ Cardinality(EventPositions("connect")) <= 1
    /\ \A i \in 1..Len(trace) :
        trace[i] \in QueryEvents =>
            /\ \E j \in 1..(i - 1) : trace[j] = "connect"
            /\ \A j \in 1..(i - 1) : trace[j] # "close"
    /\ (RunEnded /\ EventPositions("connect") # {}) =>
            /\ connection = "closed"
            /\ trace[Len(trace)] = "close"
    /\ (RunEnded /\ EventPositions("connect") = {}) => connection = "none"

\* an exception escaped after a message query and the connection was closed
C10_Witness ==
    /\ pc = "raised"
    /\ connection = "closed"
    /\ EventPositions("query") # {}
    /\ EventPositions("exception") # {}

----------------------------------------------------------------------------
(* Properties of the outcome of main *)

MainExited == pc = "exited"

StoreUnavailable == EventPositions("connect_failed") # {}

ReportedAsError == trace[Len(trace)] = "error_no_examples"

----------------------------------------------------------------------------
(* Properties of the one-on-one filter *)

\* the grouping query succeeded and the filter has been applied
ConversationsFiltered ==
    /\ pc \in {"loop", "finally", "returned", "exited"}
    /\ EventPositions("group_query") # {}

ChatKept(chat_id) ==
    \E b \in 1..Len(conversations) :
        \E k \in 1..Len(conversations[b].chat_ids) :
            conversations[b].chat_ids[k] = chat_id

\* C12 (one-on-one mode), as claimed: with PROCESS_GROUP_CHATS false no
\* conversation of more than one participant is processed or queried, and
\* every conversation whose participant set has exactly one handle is kept.
C12_OneOnOneMode ==
    (ConversationsFiltered /\ ~PROCESS_GROUP_CHATS) =>
        /\ \A c \in 1..Len(chat_table) :
            IF Cardinality(ParticipantSet(c)) = 1
            THEN ChatKept(c)
            ELSE ~ChatKept(c)
        /\ Len(LoopEvents) <= Len(conversations)

----------------------------------------------------------------------------
(* extraction and junk classification of one row (SpecExtract) *)

TextExtracted == pc \in {"classify", "classified"}

TextColumnUsable(text) == Truthy(text) /\ Len(Strip(text)) > 0

\* a decoder outcome that is a usable (non-empty) string
Usable(outcome) == outcome.kind = "string" /\ Len(outcome.value) > 0

\* the chain keyed-archive, legacy-archive, raw salvage, each method that is
\* unavailable, raises or yields no usable string handing over to the next
ChainResult(data, pyobjc) ==
    IF pyobjc /\ Usable(data.keyed) THEN data.keyed.value
    ELSE IF pyobjc /\ Usable(data.legacy) THEN data.legacy.value
    ELSE RawUtf8Fallback(data)

\* C13 (extraction chain), as claimed: the trimmed text column wins when it is
\* non-empty after trimming; otherwise a non-empty blob gives the first usable
\* string of keyed decode, legacy decode, raw salvage; otherwise the result is
\* none.
C13_ExtractionChain ==
    TextExtracted =>
        LET text == rows[1].text
            data == rows[1].attributedBody
        IN  result = IF TextColumnUsable(text) THEN Strip(text)
                     ELSE IF BlobTruthy(data)
                          THEN ChainResult(data, PYOBJC_AVAILABLE)
                          ELSE None

\* C14 (decoder libraries unavailable), as claimed: without the libraries the
\* decoding of a blob is exactly its raw salvage: invalid bytes dropped,
\* printable characters only, kept when longer than 2 characters, none
\* otherwise.
C14_UnavailableIsRawSalvage ==
    (TextExtracted /\ ~PYOBJC_AVAILABLE /\ ~TextColumnUsable(rows[1].text)) =>
        result = IF BlobTruthy(rows[1].attributedBody)
                 THEN RawUtf8Fallback(rows[1].attributedBody)
                 ELSE None

Classified == pc = "classified"

ClassifiedJunk == Classified /\ trace[Len(trace)] = "junk"

StartsWithReactionVerb(text) ==
    \E v \in TapbackVerbs :
        /\ Len(text) >= Len(v)
        /\ LowerStr(SubSeq(text, 1, Len(v))) = LowerStr(v)

IsPlaceholder(text) ==
    \E a \in AttachmentTokens : LowerStr(text) = LowerStr(a)

\* C15 (junk classification), as claimed: a text is junk exactly when it is
\* empty or absent, starts with a reaction verb, is one of the placeholders,
\* or has a trimmed length below MIN_MESSAGE_LENGTH.
C15_JunkClassification ==
    Classified =>
        (ClassifiedJunk <=>
            \/ ~Truthy(result)
            \/ StartsWithReactionVerb(result)
            \/ IsPlaceholder(result)
            \/ Len(Strip(result)) < MIN_MESSAGE_LENGTH)

----------------------------------------------------------------------------
(* the accumulated list of process_all_conversations *)

LoopRunning == pc = "loop" /\ conv_index >= 1

\* the conversations are in the order in which their keys were first seen:
\* by the first thread id of each
GroupedInFirstSeenOrder ==
    \A b1, b2 \in 1..Len(conversations) :
        b1 < b2 => conversations[b1].chat_ids[1] < conversations[b2].chat_ids[1]

\* the accumulated list is the pairs of the conversations handled so far, one
\* contiguous block each, blocks in grouped order
AccumulatedInGroupedOrder ==
    /\ Len(LoopEvents) = conv_index - 1
    /\ all_examples = Flatten([k \in 1..(conv_index - 1) |->
                                  ContributionOf(k, LoopEvents)])

GrowsByAppending ==
    /\ Len(all_examples') >= Len(all_examples)
    /\ SubSeq(all_examples', 1, Len(all_examples)) = all_examples

\* C16 (aggregation order): while the loop runs the accumulated list is the
\* concatenation, in first-seen order of the conversation keys, of the pair
\* lists of the conversations handled so far; a conversation without messages
\* or pairs adds nothing and the loop goes on; every step leaves the old list
\* as a prefix of the new one; the list returned is the accumulated list.
C16_AggregationOrder ==
    /\ [](LoopRunning => (GroupedInFirstSeenOrder /\ AccumulatedInGroupedOrder))
    /\ [](RunReturnedExamples => result = all_examples)
    /\ [][GrowsByAppending]_vars

\* two conversations gave different non-empty pair lists, and the list holds
\* the pairs of the first before the pairs of the second
C16_Witness ==
    /\ LoopRunning
    /\ conv_index = 3
    /\ LoopEvents = <<"query", "query">>
    /\ Len(PairsOfConversation(conversations[1])) > 0
    /\ Len(PairsOfConversation(conversations[2])) > 0
    /\ PairsOfConversation(conversations[1]) # PairsOfConversation(conversations[2])
    /\ all_examples = PairsOfConversation(conversations[1])
                          \o PairsOfConversation(conversations[2])

----------------------------------------------------------------------------
(* get_all_conversations called twice *)

GroupedTwice == pc = "regrouped" /\ EventPositions("group_query_error") = {}

IdsAscending(chat_ids) ==
    \A k \in 1..(Len(chat_ids) - 1) : chat_ids[k] < chat_ids[k + 1]

\* the buckets of a mapping are in the order of the first thread of each key
FirstSeenOrder(convs) ==
    \A b1, b2 \in 1..Len(convs) :
        b1 < b2 => convs[b1].chat_ids[1] < convs[b2].chat_ids[1]

\* C17 (grouping idempotence): two calls on the same store state, neither
\* query failing, return the same keys with the same thread ids, the keys in
\* the same first-seen order and the ids of each bucket ascending.
C17_GroupingIdempotent ==
    GroupedTwice =>
        /\ result = conversations
        /\ FirstSeenOrder(conversations) /\ FirstSeenOrder(result)
        /\ \A b \in 1..Len(result) :
            /\ IdsAscending(result[b].chat_ids)
            /\ IdsAscending(conversations[b].chat_ids)

\* the second call was handed the handles of a chat in another order, and the
\* mapping has two buckets, one of them with two threads
C17_Witness ==
    /\ GroupedTwice
    /\ trace = <<"group_query", "group_query">>
    /\ rows # ChatRows(chat_table, 1)
    /\ Len(result) = 2
    /\ \E b \in 1..2 : Len(result[b].chat_ids) = 2

----------------------------------------------------------------------------
(* which side the input of a pair comes from; repeated messages *)

\* C18 (input side), as claimed: the input of the pair of a turn from self at
\* index i > 0 is the text of a turn with is_from_me false.
C18_InputFromOtherSide ==
    PairsReturned =>
        LET self == SelfTurnIndices(turns, 1) IN
        \A k \in 1..Len(self) :
            self[k] > 1 =>
                /\ k <= Len(examples)
                /\ examples[k][1] = turns[self[k] - 1].text
                /\ ~turns[self[k] - 1].is_from_me

\* C19 (no duplicated message), as claimed: every message_id appears at most
\* once in the list returned by get_messages_for_conversation.
C19_NoDuplicatedMessage ==
    MessagesReturned =>
        \A i, j \in 1..Len(messages) :
            i # j => messages[i].message_id # messages[j].message_id

====
